---------------------------- MODULE Spec2Model ----------------------------
(***************************************************************************)
(* secure-redact: the HTTP endpoint (api/index.py) and the batch actor     *)
(* (main.py) around the presidio analyzer and anonymizer engines.          *)
(*                                                                         *)
(* Text is a sequence of one-character strings.  Offsets are Python's:     *)
(* start is 0-based and end is exclusive.  Scores are counted in units of  *)
(* 1e-5, so 1.0 is 100000.                                                 *)
(***************************************************************************)
EXTENDS Integers, Sequences, FiniteSets

VARIABLES analyzer, anonymizer, imported, phase, call

vars == <<analyzer, anonymizer, imported, phase, call>>

---------------------------------------------------------------------------
(* Bounds of the inputs *)

\* longest short text
MaxLen == 3

\* most candidate spans the recognizers find in one text
MaxSpans == 2

\* "chars_to_mask": 100
CharsToMask == 100

\* the shortest text that holds a span longer than chars_to_mask
LongLen == CharsToMask + 1

Alphabet == <<"a", "b", "c">>

TextOfLen(n) == [i \in 1..n |-> Alphabet[((i - 1) % Len(Alphabet)) + 1]]

Texts == {TextOfLen(n) : n \in 0..MaxLen} \cup {TextOfLen(LongLen)}

\* offsets a candidate span may start or end at (all of them in a short text)
Positions(n) == IF n <= MaxLen THEN 0..n ELSE {0, 1, n}

\* an absent key / a None, and a present value
None == {}
Some(v) == {v}
Get(opt, default) == IF opt = None THEN default ELSE CHOOSE v \in opt : TRUE

\* mask_char strings a caller sends: empty, one character, two characters
MaskStrings == {<< >>, <<"*">>, <<"*", "*">>}

Min(a, b) == IF a <= b THEN a ELSE b
Max(a, b) == IF a >= b THEN a ELSE b

\* Python's s[a:b] for 0 <= a, 0 <= b (out-of-range offsets are clamped)
Slice(s, a, b) ==
    LET lo == Min(a, Len(s))
        hi == Min(b, Len(s))
    IN  IF lo >= hi THEN << >> ELSE SubSeq(s, lo + 1, hi)

Repeat(ch, n) == [i \in 1..n |-> ch]

---------------------------------------------------------------------------
(* The recognizers loaded into the analyzer: a pattern recognizer reports   *)
(* its entity type with the fixed score of its pattern.                     *)

Recognizers ==
    { [entity_type |-> "EMAIL_ADDRESS", score |-> 100000],
      [entity_type |-> "PHONE_NUMBER",  score |-> 40000] }

SupportedEntities == {r.entity_type : r \in Recognizers}

\* an entity type a caller may ask for that no recognizer supports
UnsupportedEntity == "IBAN_CODE"

AllSpans(text) ==
    { [entity_type |-> r.entity_type, start |-> s, end |-> e, score |-> r.score] :
        r \in Recognizers,
        s \in {p \in Positions(Len(text)) : p < Len(text)},
        e \in Positions(Len(text)) } 

ValidSpans(text) == {sp \in AllSpans(text) : sp.start < sp.end}

\* the subsets of S of at most k elements
RECURSIVE UpTo(_, _)
UpTo(S, k) ==
    IF k = 0 THEN {{}}
    ELSE LET smaller == UpTo(S, k - 1)
         IN  smaller \cup {F \cup {x} : F \in smaller, x \in S}

\* what the recognizers find in a text: at most MaxSpans candidates
Findings(text) == UpTo(ValidSpans(text), MaxSpans)

---------------------------------------------------------------------------
(* analyzer.analyze(text, entities, language='en')                          *)

SpanLen(sp) == sp.end - sp.start

\* RecognizerResult.contained_in
ContainedIn(a, b) == a.start >= b.start /\ a.end <= b.end

\* RecognizerResult.intersects: the number of shared characters
Intersects(a, b) ==
    IF a.end < b.start \/ b.end < a.start THEN 0
    ELSE Min(a.end, b.end) - Max(a.start, b.start)

\* sort key of remove_duplicates: (-score, start, -(end - start)).  Two distinct
\* results of one score come from one recognizer, so the key orders them.
Before(a, b) ==
    \/ a.score > b.score
    \/ a.score = b.score /\ a.start < b.start
    \/ a.score = b.score /\ a.start = b.start /\ SpanLen(a) > SpanLen(b)

RECURSIVE SortResults(_)
SortResults(S) ==
    IF S = {} THEN << >>
    ELSE LET first == CHOOSE a \in S : \A b \in S \ {a} : Before(a, b)
         IN  <<first>> \o SortResults(S \ {first})

RECURSIVE DropContained(_, _)
DropContained(sorted, kept) ==
    IF sorted = << >> THEN kept
    ELSE LET r == Head(sorted)
             drop == \/ r.score = 0
                     \/ \E i \in 1..Len(kept) :
                          \/ kept[i] = r
                          \/ ContainedIn(r, kept[i]) /\ r.entity_type = kept[i].entity_type
         IN  DropContained(Tail(sorted), IF drop THEN kept ELSE Append(kept, r))

\* EntityRecognizer.remove_duplicates
RemoveDuplicates(S) == DropContained(SortResults(S), << >>)

\* found: what the loaded recognizers find in the text; entities: None or
\* Some(set of requested types).  An empty or absent list asks for every type;
\* a list naming only unsupported types finds no recognizer and raises.
AnalyzerAnalyze(found, entities) ==
    LET all_fields == entities = None \/ Get(entities, {}) = {}
        wanted == IF all_fields THEN SupportedEntities ELSE Get(entities, {})
    IN  IF wanted \cap SupportedEntities = {}
        THEN [raised |-> TRUE, results |-> << >>]
        ELSE [raised |-> FALSE,
              results |-> RemoveDuplicates({sp \in found : sp.entity_type \in wanted})]

---------------------------------------------------------------------------
(* anonymizer.anonymize(text, analyzer_results, operators)                  *)
(* The results are objects the caller's list shares with the engine: objs   *)
(* holds their values by position in that list, and the engine's lists hold *)
(* positions.                                                               *)

\* RecognizerResult.has_conflict
HasConflict(a, b) ==
    IF a.start = b.start /\ a.end = b.end THEN a.score <= b.score
    ELSE b.start <= a.start /\ b.end >= a.end

\* list.remove(result): drops the first element equal to result
RECURSIVE RemoveFirst(_, _, _)
RemoveFirst(others, objs, v) ==
    IF others = << >> THEN << >>
    ELSE IF objs[Head(others)] = v THEN Tail(others)
    ELSE <<Head(others)>> \o RemoveFirst(Tail(others), objs, v)

\* the first of others that has result's entity type and shares a character
\* with it, or 0
RECURSIVE FirstMergeable(_, _, _)
FirstMergeable(others, objs, r) ==
    IF others = << >> THEN 0
    ELSE LET o == objs[Head(others)]
         IN  IF o.entity_type = r.entity_type /\ Intersects(r, o) # 0
             THEN Head(others)
             ELSE FirstMergeable(Tail(others), objs, r)

\* first loop of _remove_conflicts_and_get_text_manipulation_data: a result
\* that intersects a later one of its type is merged INTO that one (the other
\* object's start, end and score are assigned) and dropped
RECURSIVE MergeSameType(_, _, _, _)
MergeSameType(i, objs, others, tmp) ==
    IF i > Len(objs) THEN [objs |-> objs, kept |-> tmp]
    ELSE LET r == objs[i]
             rest == RemoveFirst(others, objs, r)
             j == FirstMergeable(rest, objs, r)
         IN  IF j # 0
             THEN MergeSameType(i + 1,
                    [objs EXCEPT ![j] = [entity_type |-> objs[j].entity_type,
                                         start |-> Min(r.start, objs[j].start),
                                         end   |-> Max(r.end, objs[j].end),
                                         score |-> Max(r.score, objs[j].score)]],
                    rest, tmp)
             ELSE MergeSameType(i + 1, objs, Append(rest, i), Append(tmp, i))

\* second loop: a result contained in another one left, or of equal offsets
\* and no higher score, is dropped
RECURSIVE DropConflicts(_, _, _, _)
DropConflicts(todo, objs, others, unique) ==
    IF todo = << >> THEN unique
    ELSE LET i == Head(todo)
             rest == RemoveFirst(others, objs, objs[i])
             conflicted == \E k \in 1..Len(rest) : HasConflict(objs[i], objs[rest[k]])
         IN  IF conflicted
             THEN DropConflicts(Tail(todo), objs, rest, unique)
             ELSE DropConflicts(Tail(todo), objs, Append(rest, i), Append(unique, i))

\* sorted(pii_entities, reverse=True): by start, then end, descending
RECURSIVE SortDescending(_, _)
SortDescending(S, objs) ==
    IF S = {} THEN << >>
    ELSE LET top == CHOOSE i \in S : \A k \in S \ {i} :
                       \/ objs[i].start > objs[k].start
                       \/ objs[i].start = objs[k].start /\ objs[i].end > objs[k].end
                       \/ objs[i].start = objs[k].start /\ objs[i].end = objs[k].end /\ i < k
         IN  <<top>> \o SortDescending(S \ {top}, objs)

\* Mask.operate: min(len, chars_to_mask) characters, counted from the end
MaskOperate(piece, params) ==
    LET n == IF params.chars_to_mask > 0
             THEN Min(Len(piece), params.chars_to_mask) ELSE 0
    IN  IF params.from_end
        THEN Slice(piece, 0, Len(piece) - n) \o Repeat(params.masking_char[1], n)
        ELSE Repeat(params.masking_char[1], n) \o Slice(piece, n, Len(piece))

\* Replace.operate
ReplaceOperate(piece, params) == params.new_value

Operate(op, piece) ==
    IF op.operator_name = "mask" THEN MaskOperate(piece, op.params)
    ELSE ReplaceOperate(piece, op.params)

\* TextReplaceBuilder, filled from the last entity to the first.  st.text is
\* output_text, st.last is last_replacement_index, st.items the operator
\* results (the piece handed to the operator with the entity's offsets).
RECURSIVE ReplaceAll(_, _, _, _, _)
ReplaceAll(order, objs, original, operators, st) ==
    IF order = << >> THEN st
    ELSE LET e == objs[Head(order)]
             piece == Slice(original, e.start, e.end)
             changed == Operate(operators.DEFAULT, piece)
             end_of_text == Min(e.end, st.last)
         IN  ReplaceAll(Tail(order), objs, original, operators,
                 [text  |-> Slice(st.text, 0, e.start) \o changed
                              \o Slice(st.text, end_of_text, Len(st.text)),
                  last  |-> e.start,
                  items |-> Append(st.items,
                              [entity_type |-> e.entity_type, start |-> e.start,
                               end |-> e.end, operated_on |-> piece,
                               operator |-> operators.DEFAULT.operator_name])])

\* AnonymizerEngine.anonymize: the rewritten text, the operator results, and
\* the caller's result objects as the engine leaves them
AnonymizerAnonymize(text, analyzer_results, operators) ==
    LET merged == MergeSameType(1, analyzer_results,
                                [i \in 1..Len(analyzer_results) |-> i], << >>)
        unique == DropConflicts(merged.kept, merged.objs, merged.kept, << >>)
        order  == SortDescending({unique[k] : k \in 1..Len(unique)}, merged.objs)
        done   == ReplaceAll(order, merged.objs, text, operators,
                             [text |-> text, last |-> Len(text), items |-> << >>])
    IN  [text |-> done.text, items |-> done.items, analyzer_results |-> merged.objs]

---------------------------------------------------------------------------
(* Requests.  A key of the JSON body is None when absent, Some(v) when      *)
(* present.  found is what the loaded recognizers find in the text.         *)

NoRequest ==
    [text |-> None, entities |-> None, mask_char |-> None, anonymize |-> None,
     found |-> {}]

EntityFilters == {None} \cup {Some(S) : S \in SUBSET {"EMAIL_ADDRESS", UnsupportedEntity}}

OptionalMask == {None} \cup {Some(m) : m \in MaskStrings}

OptionalBool == {None, Some(TRUE), Some(FALSE)}

\* a JSON body; RedactRequest requires text, the actor's INPUT may lack it
Request(text, found, entities, mask_char, anonymize) ==
    [text |-> text, entities |-> entities, mask_char |-> mask_char,
     anonymize |-> anonymize, found |-> found]

---------------------------------------------------------------------------
(* api/index.py                                                            *)

PII == <<"<", "P", "I", "I", ">">>

\* the length test of mask_char left out: any non-empty string is masked with
BuildOperatorsAnyLength(mask_char) ==
    IF mask_char # << >>
    THEN [DEFAULT |-> [operator_name |-> "mask",
                       params |-> [masking_char |-> mask_char,
                                   chars_to_mask |-> CharsToMask,
                                   from_end |-> TRUE]]]
    ELSE [DEFAULT |-> [operator_name |-> "replace", params |-> [new_value |-> PII]]]

\* operators = {"DEFAULT": OperatorConfig("replace", ...)}, overwritten with
\* the mask operator when mask_char is one character
BuildOperators(mask_char) ==
    IF mask_char # << >> /\ Len(mask_char) = 1
    THEN [DEFAULT |-> [operator_name |-> "mask",
                       params |-> [masking_char |-> mask_char,
                                   chars_to_mask |-> CharsToMask,
                                   from_end |-> TRUE]]]
    ELSE [DEFAULT |-> [operator_name |-> "replace", params |-> [new_value |-> PII]]]

\* round(score, 4), on a score counted in units of 1e-5
Round4(score) == ((score + 5) \div 10) * 10

\* the slice ending one character early
EntityTextShort(text, res) == Slice(text, res.start, res.end - 1)

\* entity_text = request.text[res.start:res.end]
EntityText(text, res) == Slice(text, res.start, res.end)

\* the loop building structured_entities
StructuredEntities(text, analysis_results) ==
    [i \in 1..Len(analysis_results) |->
        [type  |-> analysis_results[i].entity_type,
         start |-> analysis_results[i].start,
         end   |-> analysis_results[i].end,
         score |-> Round4(analysis_results[i].score),
         text  |-> EntityText(text, analysis_results[i])]]

\* a call's locals and its outcome
IdleCall ==
    [pc |-> "idle", entry |-> "none", request |-> NoRequest,
     analyzed |-> FALSE, faulted |-> FALSE,
     analysis_results |-> << >>, operators |-> None, final_text |-> << >>,
     items |-> << >>, resp |-> [kind |-> "none"]]

\* def health_check()
HealthResponse(an) ==
    [kind |-> "health", status |-> "operational", nlp_engine_loaded |-> an # "None"]

\* raise HTTPException(status_code=500, ...)
ModelMissing ==
    [kind |-> "http_exception", status_code |-> 500,
     detail |-> "Server Configuration Error: NLP Model Missing"]

\* an exception no handler catches
Unhandled(error) == [kind |-> "unhandled", error |-> error]

EmptyInputResponse ==
    [kind |-> "response", original_length |-> 0, redacted_text |-> << >>,
     entities_detected |-> << >>, metadata |-> [status |-> "empty_input"]]

RedactResponse(text, final_text, structured_entities) ==
    [kind |-> "response", original_length |-> Len(text), redacted_text |-> final_text,
     entities_detected |-> structured_entities,
     metadata |-> [engine |-> "presidio-lite", model |-> "en_core_web_sm",
                   entity_count |-> Len(structured_entities)]]

\* the steps of redact_pii, each from the call's locals c

\* if not analyzer: raise ...; if not request.text: return the empty response
Guards(an, c) ==
    IF an = "None" THEN [c EXCEPT !.pc = "done", !.resp = ModelMissing]
    ELSE IF Get(c.request.text, << >>) = << >>
    THEN [c EXCEPT !.pc = "done", !.resp = EmptyInputResponse]
    ELSE [c EXCEPT !.pc = "analysis"]

\* 1. ANALYSIS PHASE
Analysis(an, c) ==
    LET a == AnalyzerAnalyze(c.request.found, c.request.entities)
    IN  IF a.raised
        THEN [c EXCEPT !.pc = "done", !.analyzed = TRUE, !.resp = Unhandled("ValueError")]
        ELSE [c EXCEPT !.pc = "anonymization", !.analyzed = TRUE,
                       !.analysis_results = a.results]

\* final_text starting empty instead of as request.text
AnonymizationEmptyStart(anon, c) ==
    LET text == Get(c.request.text, << >>)
    IN  IF ~Get(c.request.anonymize, TRUE)
        THEN [c EXCEPT !.pc = "normalization", !.final_text = << >>]
        ELSE LET operators == BuildOperators(Get(c.request.mask_char, <<"*">>))
                 r == AnonymizerAnonymize(text, c.analysis_results, operators)
             IN  [c EXCEPT !.pc = "normalization", !.operators = Some(operators),
                           !.analysis_results = r.analyzer_results,
                           !.items = r.items, !.final_text = r.text]

\* 2. ANONYMIZATION PHASE
Anonymization(anon, c) ==
    LET text == Get(c.request.text, << >>)
    IN  IF ~Get(c.request.anonymize, TRUE)
        THEN [c EXCEPT !.pc = "normalization", !.final_text = text]
        ELSE IF anon = "None"
        THEN [c EXCEPT !.pc = "done", !.faulted = TRUE,
                       !.operators = Some(BuildOperators(Get(c.request.mask_char, <<"*">>))),
                       !.resp = Unhandled("AttributeError")]
        ELSE LET operators == BuildOperators(Get(c.request.mask_char, <<"*">>))
                 r == AnonymizerAnonymize(text, c.analysis_results, operators)
             IN  [c EXCEPT !.pc = "normalization", !.operators = Some(operators),
                           !.analysis_results = r.analyzer_results,
                           !.items = r.items, !.final_text = r.text]

\* 3. RESPONSE NORMALIZATION
Normalization(c) ==
    LET text == Get(c.request.text, << >>)
    IN  [c EXCEPT !.pc = "done",
                  !.resp = RedactResponse(text, c.final_text,
                                          StructuredEntities(text, c.analysis_results))]

\* one step of redact_pii
Step(an, anon, c) ==
    CASE c.pc = "guards"        -> Guards(an, c)
      [] c.pc = "analysis"      -> Analysis(an, c)
      [] c.pc = "anonymization" -> Anonymization(anon, c)
      [] c.pc = "normalization" -> Normalization(c)
      [] OTHER                  -> c

RECURSIVE RunToEnd(_, _, _)
RunToEnd(an, anon, c) == IF c.pc = "done" THEN c ELSE RunToEnd(an, anon, Step(an, anon, c))

\* async def redact_pii(request), start to end
RedactPiiCall(an, anon, request) ==
    RunToEnd(an, anon, [IdleCall EXCEPT !.pc = "guards", !.entry = "redact_pii",
                                        !.request = request])

---------------------------------------------------------------------------
(* main.py                                                                 *)

\* operators = {"DEFAULT": OperatorConfig("replace", ...)}, overwritten with
\* the mask operator when mask_char is one character
MainBuildOperators(mask_char) ==
    IF mask_char # << >> /\ Len(mask_char) = 1
    THEN [DEFAULT |-> [operator_name |-> "mask",
                       params |-> [masking_char |-> mask_char,
                                   chars_to_mask |-> CharsToMask,
                                   from_end |-> TRUE]]]
    ELSE [DEFAULT |-> [operator_name |-> "replace", params |-> [new_value |-> PII]]]

\* the loop building structured_entities
MainStructuredEntities(text, analysis_results) ==
    [i \in 1..Len(analysis_results) |->
        [type  |-> analysis_results[i].entity_type,
         start |-> analysis_results[i].start,
         end   |-> analysis_results[i].end,
         score |-> Round4(analysis_results[i].score),
         text  |-> Slice(text, analysis_results[i].start, analysis_results[i].end)]]

\* main() returned before any output was pushed
Returned(message) == [kind |-> "return", printed |-> message]

OutputData(text, final_text, structured_entities) ==
    [kind |-> "output", original_length |-> Len(text), redacted_text |-> final_text,
     entities_detected |-> structured_entities, is_success |-> TRUE]

\* def main(), start to end; analyze is called without the entities key
MainCall(an, anon, actor_input) ==
    LET c0 == [IdleCall EXCEPT !.pc = "done", !.entry = "main", !.request = actor_input]
        text == Get(actor_input.text, << >>)
        should_anonymize == Get(actor_input.anonymize, TRUE)
        mask_char == Get(actor_input.mask_char, <<"*">>)
    IN  IF actor_input.text = None
        THEN [c0 EXCEPT !.resp = Returned("ERROR: No text provided in input.")]
        ELSE IF text = << >>
        THEN [c0 EXCEPT !.resp = Returned("Empty text provided.")]
        ELSE IF an = "None"
        THEN [c0 EXCEPT !.faulted = TRUE, !.resp = Unhandled("AttributeError")]
        ELSE LET a == AnalyzerAnalyze(actor_input.found, None)
                 c1 == [c0 EXCEPT !.analyzed = TRUE, !.analysis_results = a.results]
             IN  IF ~should_anonymize
                 THEN [c1 EXCEPT !.final_text = text,
                                 !.resp = OutputData(text, text,
                                            MainStructuredEntities(text, a.results))]
                 ELSE IF anon = "None"
                 THEN [c1 EXCEPT !.faulted = TRUE,
                                 !.operators = Some(MainBuildOperators(mask_char)),
                                 !.resp = Unhandled("AttributeError")]
                 ELSE LET operators == MainBuildOperators(mask_char)
                          r == AnonymizerAnonymize(text, a.results, operators)
                      IN  [c1 EXCEPT !.operators = Some(operators),
                                     !.analysis_results = r.analyzer_results,
                                     !.items = r.items, !.final_text = r.text,
                                     !.resp = OutputData(text, r.text,
                                                MainStructuredEntities(text,
                                                    r.analyzer_results))]

---------------------------------------------------------------------------
(* The service: the module is imported once, then calls are served one at a *)
(* time in slot "c1".                                                       *)

Calls == {"c1", "c2"}

Init ==
    /\ analyzer = "unset"
    /\ anonymizer = "unset"
    /\ imported = [analyzer |-> "unset", anonymizer |-> "unset"]
    /\ phase = "import"
    /\ call = [c \in Calls |-> IdleCall]

\* the try/except around the engines' construction: both are built, or both
\* are None
ImportModule ==
    /\ phase = "import"
    /\ \E loaded \in BOOLEAN :
         /\ analyzer' = IF loaded THEN "AnalyzerEngine" ELSE "None"
         /\ anonymizer' = IF loaded THEN "AnonymizerEngine" ELSE "None"
         /\ imported' = [analyzer   |-> IF loaded THEN "AnalyzerEngine" ELSE "None",
                          anonymizer |-> IF loaded THEN "AnonymizerEngine" ELSE "None"]
    /\ phase' = "serving"
    /\ UNCHANGED call

HealthCheck ==
    /\ phase = "serving"
    /\ call["c1"].pc = "idle"
    /\ call' = [call EXCEPT !["c1"] =
                  [IdleCall EXCEPT !.pc = "done", !.entry = "health_check",
                                   !.resp = HealthResponse(analyzer)]]
    /\ UNCHANGED <<analyzer, anonymizer, imported, phase>>

RedactPii ==
    /\ phase = "serving"
    /\ call["c1"].pc = "idle"
    /\ \E t \in Texts : \E F \in Findings(t) :
         \E e \in EntityFilters, m \in OptionalMask, a \in OptionalBool :
           call' = [call EXCEPT !["c1"] =
                      RedactPiiCall(analyzer, anonymizer, Request(Some(t), F, e, m, a))]
    /\ UNCHANGED <<analyzer, anonymizer, imported, phase>>

Main ==
    /\ phase = "serving"
    /\ call["c1"].pc = "idle"
    /\ \E text \in {None} \cup {Some(t) : t \in Texts} :
         \E F \in Findings(Get(text, << >>)) :
           \E e \in EntityFilters, m \in OptionalMask, a \in OptionalBool :
             call' = [call EXCEPT !["c1"] =
                        MainCall(analyzer, anonymizer, Request(text, F, e, m, a))]
    /\ UNCHANGED <<analyzer, anonymizer, imported, phase>>

\* the caller has its answer; the call's locals are gone
Deliver ==
    /\ call["c1"].pc = "done"
    /\ call' = [call EXCEPT !["c1"] = IdleCall]
    /\ UNCHANGED <<analyzer, anonymizer, imported, phase>>

Next == ImportModule \/ HealthCheck \/ Main \/ RedactPii \/ Deliver

Spec == Init /\ [][Next]_vars

---------------------------------------------------------------------------
(* Concurrent service: calls in both slots advance one step at a time, in   *)
(* any order, next to health checks.                                        *)

SpanOf(type, s, e) ==
    CHOOSE sp \in ValidSpans(TextOfLen(MaxLen)) :
        sp.entity_type = type /\ sp.start = s /\ sp.end = e

ConcRequests ==
    { [text |-> Some(TextOfLen(MaxLen)), entities |-> e, mask_char |-> Some(m),
       anonymize |-> a, found |-> F] :
        e \in {None, Some({"EMAIL_ADDRESS"})},
        m \in {<<"*">>, <<"*", "*">>},
        a \in {None, Some(FALSE)},
        F \in { {},
                {SpanOf("EMAIL_ADDRESS", 0, MaxLen)},
                {SpanOf("EMAIL_ADDRESS", 0, 1), SpanOf("PHONE_NUMBER", 0, MaxLen)} } }

Begin(c) ==
    /\ phase = "serving"
    /\ call[c].pc = "idle"
    /\ \E request \in ConcRequests :
         call' = [call EXCEPT ![c] = [IdleCall EXCEPT !.pc = "guards",
                                                      !.entry = "redact_pii",
                                                      !.request = request]]
    /\ UNCHANGED <<analyzer, anonymizer, imported, phase>>

BeginHealth(c) ==
    /\ phase = "serving"
    /\ call[c].pc = "idle"
    /\ call' = [call EXCEPT ![c] =
                  [IdleCall EXCEPT !.pc = "done", !.entry = "health_check",
                                   !.resp = HealthResponse(analyzer)]]
    /\ UNCHANGED <<analyzer, anonymizer, imported, phase>>

DoGuards(c) ==
    /\ call[c].pc = "guards"
    /\ call' = [call EXCEPT ![c] = Guards(analyzer, call[c])]
    /\ UNCHANGED <<analyzer, anonymizer, imported, phase>>

DoAnalysis(c) ==
    /\ call[c].pc = "analysis"
    /\ call' = [call EXCEPT ![c] = Analysis(analyzer, call[c])]
    /\ UNCHANGED <<analyzer, anonymizer, imported, phase>>

\* final_text kept in one module-level buffer instead of the call's frame
DoAnonymizationSharedBuffer(c) ==
    /\ call[c].pc = "anonymization"
    /\ LET mine == Anonymization(anonymizer, call[c])
       IN  call' = [d \in Calls |->
                      IF d = c THEN mine
                      ELSE IF call[d].pc \in {"anonymization", "normalization"}
                      THEN [call[d] EXCEPT !.final_text = mine.final_text]
                      ELSE call[d]]
    /\ UNCHANGED <<analyzer, anonymizer, imported, phase>>

DoAnonymization(c) ==
    /\ call[c].pc = "anonymization"
    /\ call' = [call EXCEPT ![c] = Anonymization(anonymizer, call[c])]
    /\ UNCHANGED <<analyzer, anonymizer, imported, phase>>

DoNormalization(c) ==
    /\ call[c].pc = "normalization"
    /\ call' = [call EXCEPT ![c] = Normalization(call[c])]
    /\ UNCHANGED <<analyzer, anonymizer, imported, phase>>

Finish(c) ==
    /\ call[c].pc = "done"
    /\ call' = [call EXCEPT ![c] = IdleCall]
    /\ UNCHANGED <<analyzer, anonymizer, imported, phase>>

NextConc ==
    \/ ImportModule
    \/ \E c \in Calls :
         \/ Begin(c)
         \/ BeginHealth(c)
         \/ DoGuards(c)
         \/ DoAnalysis(c)
         \/ DoAnonymization(c)
         \/ DoNormalization(c)
         \/ Finish(c)

SpecConc == Init /\ [][NextConc]_vars

---------------------------------------------------------------------------
(* Properties                                                              *)

Served == call["c1"]

Answered == Served.pc = "done" /\ Served.resp.kind \in {"response", "output"}

TextIn(c) == Get(c.request.text, << >>)
MaskCharIn(c) == Get(c.request.mask_char, <<"*">>)
AnonymizeIn(c) == Get(c.request.anonymize, TRUE)
OperatorsOf(c) == CHOOSE ops \in c.operators : TRUE

\* a call that went through the detection and produced its answer
Redacted == Answered /\ TextIn(Served) # << >>

\* 0-based offset p of the input lies inside a reported entity
Inside(p, entities) ==
    \E i \in 1..Len(entities) : entities[i].start <= p /\ p < entities[i].end

(* C1: in both entry points, a call with anonymize true hands the anonymizer *)
(* an operator map with a DEFAULT binding: mask with mask_char when          *)
(* mask_char is exactly one character, else replace with "<PII>"; a call     *)
(* with anonymize false builds no operator.                                  *)
C1_DefaultOperator ==
    /\ Redacted => (Served.operators # None <=> AnonymizeIn(Served))
    /\ Served.operators # None =>
         LET ops == OperatorsOf(Served)
         IN  /\ DOMAIN ops = {"DEFAULT"}
             /\ IF Len(MaskCharIn(Served)) = 1
                THEN /\ ops.DEFAULT.operator_name = "mask"
                     /\ ops.DEFAULT.params.masking_char = MaskCharIn(Served)
                ELSE /\ ops.DEFAULT.operator_name = "replace"
                     /\ ops.DEFAULT.params = [new_value |-> PII]

C1_Witness ==
    /\ Redacted
    /\ Served.entry = "main"
    /\ Len(MaskCharIn(Served)) = 2
    /\ Served.operators # None
    /\ Served.items # << >>

\* no two reported entities share a character
Disjoint(entities) ==
    \A i, k \in 1..Len(entities) :
        i # k => \/ entities[i].end <= entities[k].start
                 \/ entities[k].end <= entities[i].start

(* C2: with anonymize true and a one-character mask_char, the redacted text  *)
(* has the input's length, holds mask_char at every offset inside a detected *)
(* span, whatever the span's length, and the input's character at every      *)
(* other offset.  Stated for detections whose spans share no character.      *)
C2_MaskCoversSpans ==
    (/\ Redacted
     /\ AnonymizeIn(Served)
     /\ Len(MaskCharIn(Served)) = 1
     /\ Disjoint(Served.resp.entities_detected)) =>
        LET text == TextIn(Served)
            out == Served.resp.redacted_text
            entities == Served.resp.entities_detected
        IN  /\ Len(out) = Len(text)
            /\ \A p \in 0..(Len(text) - 1) :
                 out[p + 1] = IF Inside(p, entities) THEN MaskCharIn(Served)[1]
                              ELSE text[p + 1]

(* C3: entities_detected is sorted by start ascending and no two of its      *)
(* spans overlap: spans[i].end <= spans[i+1].start for every adjacent pair.  *)
C3_SortedDisjoint ==
    Answered =>
        LET entities == Served.resp.entities_detected
        IN  \A i \in 1..(Len(entities) - 1) :
              /\ entities[i].start <= entities[i + 1].start
              /\ entities[i].end <= entities[i + 1].start

(* C4: with anonymize true, the reported spans are exactly the rewritten     *)
(* ones: every reported span was handed to the operator as text[start:end],  *)
(* and every rewritten span is reported.                                     *)
C4_ReportedAreRewritten ==
    (Redacted /\ AnonymizeIn(Served)) =>
        LET text == TextIn(Served)
            entities == Served.resp.entities_detected
            items == Served.items
        IN  /\ \A i \in 1..Len(entities) : \E k \in 1..Len(items) :
                 /\ items[k].start = entities[i].start
                 /\ items[k].end = entities[i].end
                 /\ items[k].operated_on = Slice(text, entities[i].start, entities[i].end)
            /\ \A k \in 1..Len(items) : \E i \in 1..Len(entities) :
                 /\ items[k].start = entities[i].start
                 /\ items[k].end = entities[i].end

(* C5: every returned entity has 0 <= start < end <= original_length, its    *)
(* text is input[start:end] of the original input, and original_length is    *)
(* the input's length, also when the redacted text has another length.       *)
C5_OffsetsIndexInput ==
    Answered =>
        LET text == TextIn(Served)
            entities == Served.resp.entities_detected
        IN  /\ Served.resp.original_length = Len(text)
            /\ \A i \in 1..Len(entities) :
                 /\ 0 <= entities[i].start
                 /\ entities[i].start < entities[i].end
                 /\ entities[i].end <= Served.resp.original_length
                 /\ entities[i].text = SubSeq(text, entities[i].start + 1, entities[i].end)

C5_Witness ==
    /\ Redacted
    /\ Served.entry = "redact_pii"
    /\ Len(Served.resp.entities_detected) = 2
    /\ Len(Served.resp.redacted_text) > Served.resp.original_length
    /\ Served.resp.entities_detected[1].start > 0

(* C6: when the caller names requested entity types, every returned and      *)
(* every rewritten span has one of them, in both entry points, and naming a  *)
(* type no recognizer supports is not an error.                              *)
C6_OnlyRequestedTypes ==
    (/\ Served.pc = "done"
     /\ Served.entry \in {"redact_pii", "main"}
     /\ analyzer # "None"
     /\ TextIn(Served) # << >>
     /\ Served.request.entities # None
     /\ Get(Served.request.entities, {}) # {}) =>
        LET requested == Get(Served.request.entities, {})
        IN  /\ Served.resp.kind \in {"response", "output"}
            /\ \A i \in 1..Len(Served.resp.entities_detected) :
                 Served.resp.entities_detected[i].type \in requested
            /\ \A k \in 1..Len(Served.items) :
                 Served.items[k].entity_type \in requested

(* C7: a call with an empty text, engine loaded or not, returns an empty     *)
(* entity list and an empty redacted text, not an error, and invokes no      *)
(* recognizer.  The batch actor has no response body: its plain return       *)
(* counts as the empty result here.                                          *)
C7_EmptyTextSafe ==
    (/\ Served.pc = "done"
     /\ Served.entry \in {"redact_pii", "main"}
     /\ Served.request.text = Some(<< >>)) =>
        /\ ~Served.analyzed
        /\ ~Served.faulted
        /\ \/ Served.entry = "main" /\ Served.resp.kind = "return"
           \/ /\ Served.resp.kind \in {"response", "output"}
              /\ Served.resp.entities_detected = << >>
              /\ Served.resp.redacted_text = << >>

(* C8: after a failed initialization the health check reports the engine as  *)
(* not loaded, and every redact_pii or main call ends in an explicit         *)
(* rejection before either engine is used, never in a dereference of None.   *)
C8_FailedInitRejects ==
    (phase = "serving" /\ analyzer = "None" /\ Served.pc = "done") =>
        /\ Served.entry = "health_check" => Served.resp.nlp_engine_loaded = FALSE
        /\ Served.entry \in {"redact_pii", "main"} =>
             /\ ~Served.faulted
             /\ ~Served.analyzed
             /\ Served.resp.kind \in {"http_exception", "return"}

(* C9: for a non-empty input whose detection yields no span, the redacted    *)
(* text is the input, under mask or replace, with anonymize true or false.   *)
C9_Identity ==
    (Redacted /\ Served.analysis_results = << >>) =>
        Served.resp.redacted_text = TextIn(Served)

C9_Witness ==
    /\ Redacted
    /\ Served.analysis_results = << >>
    /\ AnonymizeIn(Served)
    /\ Served.operators # None
    /\ OperatorsOf(Served).DEFAULT.operator_name = "replace"
    /\ Served.resp.redacted_text = TextIn(Served)

(* C10: under any interleaving of redact_pii and health_check calls, the     *)
(* process-wide analyzer and anonymizer stay as the import left them, and    *)
(* every finished call holds the locals and the response it has when run     *)
(* alone on its request.                                                     *)
C10_CallsIsolated ==
    /\ phase = "serving" =>
         /\ analyzer = imported.analyzer
         /\ anonymizer = imported.anonymizer
    /\ \A c \in Calls :
         call[c].pc = "done" =>
           IF call[c].entry = "health_check"
           THEN call[c].resp = HealthResponse(imported.analyzer)
           ELSE call[c] = RedactPiiCall(imported.analyzer, imported.anonymizer,
                                        call[c].request)

C10_Witness ==
    /\ call["c1"].pc = "done"
    /\ call["c1"].entry = "redact_pii"
    /\ call["c1"].resp.kind = "response"
    /\ call["c1"].operators # None
    /\ call["c2"].pc = "normalization"
    /\ call["c2"].request # call["c1"].request
    /\ call["c2"].final_text # call["c1"].final_text

===========================================================================
